---- MODULE Spec2Model ----
(***************************************************************************)
(* Model of src/src/filter.rs: the Filter builder, a cursor (next, last)   *)
(* over a tree of reference-counted nodes (Rc<RefCell<Node>>).             *)
(*                                                                         *)
(* heap is the set of Rc allocations, indexed by address 1..Len(heap).     *)
(* root, next, last are the fields of the Filter made by Filter::new();    *)
(* built holds the Filter values build() returned, which the caller keeps. *)
(* An Option is a sequence: None is <<>>, Some(x) is <<x>>.                *)
(* A string is the sequence of its characters.                             *)
(***************************************************************************)
EXTENDS Integers, Sequences, FiniteSets, TLC

VARIABLES heap, root, next, last, built, call, pat, nest, out

vars == <<heap, root, next, last, built, call, pat, nest, out>>

\* ---------------------------------------------------------------- bounds
MaxNodes == 3
MaxBuilt == 2
MaxValue == 70000

\* --------------------------------------------------------------- options
None == <<>>
Some(x) == <<x>>

\* ------------------------------------------------------------- Operator
AND == 1
OR == 2

\* ------------------------------------------------ external conversions
HexLower == <<"0","1","2","3","4","5","6","7","8","9","a","b","c","d","e","f">>
HexUpper == <<"0","1","2","3","4","5","6","7","8","9","A","B","C","D","E","F">>

HexDigits == {HexLower[i] : i \in 1..16} \cup {HexUpper[i] : i \in 1..16}
HexValue == [c \in HexDigits |-> (CHOOSE i \in 1..16 : HexLower[i] = c \/ HexUpper[i] = c) - 1]

IsHex(c) == c \in HexDigits
HexVal(c) == HexValue[c]

Err == [ok |-> FALSE, val |-> <<>>]
Ok(v) == [ok |-> TRUE, val |-> v]

\* str::strip_prefix("0x").unwrap_or(input)
strip_prefix(s) ==
    IF Len(s) >= 2 /\ s[1] = "0" /\ s[2] = "x" THEN SubSeq(s, 3, Len(s)) ELSE s

\* hex::decode: an odd length or a non-hex character is an error
hex_decode(s) ==
    IF Len(s) % 2 # 0 \/ (\E i \in 1..Len(s) : ~IsHex(s[i]))
    THEN Err
    ELSE Ok([i \in 1..(Len(s) \div 2) |-> 16 * HexVal(s[2*i - 1]) + HexVal(s[2*i])])

\* <Address as FromStr>::from_str: exactly 20 bytes of hex, optional 0x
AddressLen == 20
parse_address(s) ==
    LET d == hex_decode(strip_prefix(s))
    IN  IF d.ok /\ Len(d.val) = AddressLen THEN d ELSE Err

\* <Bytes as FromStr>::from_str: hex of any whole number of bytes, optional 0x
parse_bytes(s) == hex_decode(strip_prefix(s))

\* format!("{:x}", u): lower-case hex digits, no leading zero, "0" for zero
RECURSIVE LowerHex(_)
LowerHex(u) ==
    IF u < 16 THEN <<HexLower[u + 1]>>
    ELSE Append(LowerHex(u \div 16), HexLower[(u % 16) + 1])

from_u256_padright(u) ==
    LET hex == LowerHex(u)
        padded == IF Len(hex) % 2 # 0 THEN hex \o <<"0">> ELSE hex
    IN  hex_decode(padded).val

from_u256(u) ==
    LET hex == LowerHex(u)
        padded == IF Len(hex) % 2 # 0 THEN <<"0">> \o hex ELSE hex
    IN  hex_decode(padded).val

\* ----------------------------------------------------------------- Node
Condition(k, v) ==
    [operand |-> Some([key |-> k, value |-> v]), operator |-> None, nodes |-> None]

Group_untagged(op) ==
    [operand |-> None, operator |-> None, nodes |-> None]

Group(op) ==
    [operand |-> None, operator |-> Some(op), nodes |-> None]

push_front(n, id) ==
    IF n.nodes = None
    THEN [n EXCEPT !.nodes = Some(<<id>>)]
    ELSE [n EXCEPT !.nodes = Some(<<id>> \o n.nodes[1])]

\* match &mut next.nodes { Some(children) => push, None => Some(vec![new]) }
push(n, id) ==
    IF n.nodes = None
    THEN [n EXCEPT !.nodes = Some(<<id>>)]
    ELSE [n EXCEPT !.nodes = Some(Append(n.nodes[1], id))]

\* ---------------------------------------------------------------- inputs
\* "0x7a250d5630B4cF539739dF2C5dAcb4c659F24ABC"
AddrA == <<"0","x","7","a","2","5","0","d","5","6","3","0","B","4","c","F","5","3","9","7","3","9","d","F","2","C","5","d","A","c","b","4","c","6","5","9","F","2","4","A","B","C">>
\* "7a250d5630B4cF539739dF2C5dAcb4c659F2488D" (no 0x prefix)
AddrB == <<"7","a","2","5","0","d","5","6","3","0","B","4","c","F","5","3","9","7","3","9","d","F","2","C","5","d","A","c","b","4","c","6","5","9","F","2","4","8","8","D">>
\* "not-an-address"
AddrMalformed == <<"n","o","t","-","a","n","-","a","d","d","r","e","s","s">>
\* "0x7a250d" (too short for an address)
AddrShort == <<"0","x","7","a","2","5","0","d">>
\* "0xa9059cbb"
Selector == <<"0","x","a","9","0","5","9","c","b","b">>
\* "0xa9059cb" (odd number of digits)
SelectorOdd == <<"0","x","a","9","0","5","9","c","b">>

ToInputs == {AddrA, AddrMalformed}
FromInputs == {AddrB, AddrShort}
MethodInputs == {Selector, SelectorOdd}
ValueInputs == {0, 256}

\* ------------------------------------------------------- serialization
\* the base64 crate's standard alphabet, with = padding
Base64Alphabet == <<"A","B","C","D","E","F","G","H","I","J","K","L","M","N","O","P","Q","R","S","T","U","V","W","X","Y","Z","a","b","c","d","e","f","g","h","i","j","k","l","m","n","o","p","q","r","s","t","u","v","w","x","y","z","0","1","2","3","4","5","6","7","8","9","+","/">>

\* three bytes give four characters; a last group of one or two bytes is
\* padded with =
base64_encode(b) ==
    LET A == Base64Alphabet
        byte(i) == IF i <= Len(b) THEN b[i] ELSE 0
        char(g, j) ==
            LET b1 == byte(3 * g + 1)
                b2 == byte(3 * g + 2)
                b3 == byte(3 * g + 3)
            IN  IF j = 0 THEN A[(b1 \div 4) + 1]
                ELSE IF j = 1 THEN A[(b1 % 4) * 16 + (b2 \div 16) + 1]
                ELSE IF j = 2
                THEN IF 3 * g + 2 > Len(b) THEN "="
                     ELSE A[(b2 % 16) * 4 + (b3 \div 64) + 1]
                ELSE IF 3 * g + 3 > Len(b) THEN "=" ELSE A[(b3 % 64) + 1]
    IN  [k \in 1..(4 * ((Len(b) + 2) \div 3)) |-> char((k - 1) \div 4, (k - 1) % 4)]

RECURSIVE Flatten(_)
Flatten(ss) == IF ss = <<>> THEN <<>> ELSE Head(ss) \o Flatten(Tail(ss))

\* serde_json's two formatters: the compact one writes nothing between
\* tokens, the pretty one a line break and two spaces per level
indent(fmt, d) == IF fmt = "pretty" THEN <<"\n">> \o [i \in 1..d |-> "  "] ELSE <<>>
colon(fmt) == IF fmt = "pretty" THEN ": " ELSE ":"

\* a JSON string
quoted(chars) == <<"\"">> \o chars \o <<"\"">>

\* the start of a field of an object whose fields are at depth d
field(fmt, d, name) == indent(fmt, d) \o <<"\"", name, "\"", colon(fmt)>>

\* the values a condition can hold, and their base64 text
LeafValues ==
    {r.val : r \in {x \in {parse_address(s) : s \in ToInputs \cup FromInputs}
                          \cup {parse_bytes(s) : s \in MethodInputs} : x.ok}}
    \cup {from_u256(v) : v \in ValueInputs}
Base64Text == [b \in LeafValues |-> base64_encode(b)]

\* mod base64: serialize(v, s) writes base64::encode(v) as a string
base64_serialize(v) ==
    quoted(IF v \in LeafValues THEN Base64Text[v] ELSE base64_encode(v))

\* FilterKV: Key as a string, Value through mod base64
serialize_FilterKV(fmt, d, kv) ==
    <<"{">>
    \o field(fmt, d + 1, "Key") \o quoted(<<kv.key>>) \o <<",">>
    \o field(fmt, d + 1, "Value") \o base64_serialize(kv.value)
    \o indent(fmt, d) \o <<"}">>

\* Serialize_repr: the discriminant as a number
serialize_Operator(op) == <<IF op = AND THEN "1" ELSE "2">>

\* Node, through Rc and RefCell: PascalCase fields in declaration order; a
\* Vec is an array, written [] when empty
RECURSIVE serialize_Node(_, _, _, _)
serialize_Node(fmt, d, h, id) ==
    <<"{">>
    \o field(fmt, d + 1, "Operand")
    \o (IF h[id].operand = None THEN <<"null">>
        ELSE serialize_FilterKV(fmt, d + 1, h[id].operand[1]))
    \o <<",">>
    \o field(fmt, d + 1, "Operator")
    \o (IF h[id].operator = None THEN <<"null">>
        ELSE serialize_Operator(h[id].operator[1]))
    \o <<",">>
    \o field(fmt, d + 1, "Nodes")
    \o (IF h[id].nodes = None THEN <<"null">>
        ELSE IF h[id].nodes[1] = <<>> THEN <<"[", "]">>
        ELSE <<"[">>
             \o Flatten([i \in 1..Len(h[id].nodes[1]) |->
                            indent(fmt, d + 2)
                            \o serialize_Node(fmt, d + 2, h, h[id].nodes[1][i])
                            \o (IF i < Len(h[id].nodes[1]) THEN <<",">> ELSE <<>>)])
             \o indent(fmt, d + 1) \o <<"]">>)
    \o indent(fmt, d) \o <<"}">>

serialize_Filter_cursor(fmt, h, f) ==
    <<"{">>
    \o field(fmt, 1, "Root")
    \o (IF f.root = None THEN <<"null">> ELSE serialize_Node(fmt, 1, h, f.root[1]))
    \o <<",">>
    \o field(fmt, 1, "Next")
    \o (IF f.next = None THEN <<"null">> ELSE serialize_Node(fmt, 1, h, f.next[1]))
    \o <<",">>
    \o field(fmt, 1, "Last")
    \o (IF f.last = None THEN <<"null">> ELSE serialize_Node(fmt, 1, h, f.last[1]))
    \o indent(fmt, 0) \o <<"}">>

\* Filter: next and last are #[serde(skip_serializing)]
serialize_Filter(fmt, h, f) ==
    <<"{">>
    \o field(fmt, 1, "Root")
    \o (IF f.root = None THEN <<"null">> ELSE serialize_Node(fmt, 1, h, f.root[1]))
    \o indent(fmt, 0) \o <<"}">>

\* the nodes below r
RECURSIVE Reach(_, _)
Reach(h, r) ==
    IF r = None THEN {}
    ELSE {r[1]} \cup UNION {Reach(h, Some(h[r[1]].nodes[1][i])) :
                               i \in 1..(IF h[r[1]].nodes = None THEN 0
                                         ELSE Len(h[r[1]].nodes[1]))}

\* RefCell's Serialize fails on a node that is mutably borrowed; every
\* borrow_mut() guard of the builder is dropped before its call returns
MutBorrowed == {}

to_writer_strict(fmt, h, f) ==
    IF \E n \in Reach(h, f.root) : h[n].operand # None /\ h[n].nodes # None
    THEN Err
    ELSE Ok(serialize_Filter(fmt, h, f))

\* serde_json::to_vec / to_string_pretty
to_writer(fmt, h, f) ==
    IF \E n \in Reach(h, f.root) : n \in MutBorrowed
    THEN Err
    ELSE Ok(serialize_Filter(fmt, h, f))

\* ------------------------------------------- observers of the call made
NoPat == [stage |-> 0, node |-> 0, at |-> None]

\* pat recognises the call sequence and(); exit(); <condition>
Track(op, res) ==
    IF op = "and" /\ res = "ok"
    THEN [stage |-> 1, node |-> Len(heap) + 1, at |-> next]
    ELSE IF op = "exit" /\ pat.stage = 1
    THEN [pat EXCEPT !.stage = 2]
    ELSE IF op \in {"to", "from", "method_id", "value"} /\ res # "parse_error"
            /\ pat.stage = 2
    THEN [pat EXCEPT !.stage = 3]
    ELSE NoPat

NoNest == [stage |-> 0, before |-> None, g1 |-> 0, g2 |-> 0]

\* nest recognises the call sequence <group>; <group>; exit(); exit(), where
\* <group> is and() or or(): g1 and g2 are the two group nodes, before is
\* next as it was when the first group was opened
TrackNest(op, res) ==
    IF op \in {"and", "or"} /\ res = "ok"
    THEN IF nest.stage = 1
         THEN [nest EXCEPT !.stage = 2, !.g2 = Len(heap) + 1]
         ELSE [stage |-> 1, before |-> next, g1 |-> Len(heap) + 1, g2 |-> 0]
    ELSE IF op = "exit" /\ nest.stage \in {2, 3}
    THEN [nest EXCEPT !.stage = nest.stage + 1]
    ELSE NoNest

\* call is the last call made on the builder, its argument and how it ended;
\* out is what that call returned when it was encode() or encode_pretty()
ObserveRet(op, arg, res, ret) ==
    /\ call' = [op |-> op, arg |-> arg, res |-> res]
    /\ pat' = Track(op, res)
    /\ nest' = TrackNest(op, res)
    /\ out' = ret

Observe(op, arg, res) == ObserveRet(op, arg, res, None)

\* ----------------------------------------------------------------- Init
\* Filter::new()
Init ==
    /\ heap = <<>>
    /\ root = None
    /\ next = None
    /\ last = None
    /\ built = <<>>
    /\ call = [op |-> "new", arg |-> <<>>, res |-> "ok"]
    /\ pat = NoPat
    /\ nest = NoNest
    /\ out = None

\* ------------------------------------------------------ condition calls
attach_at_root(op, arg, new) ==
    IF root # None
    THEN IF next = None
         THEN /\ Observe(op, arg, "unwrap_none")
              /\ UNCHANGED <<heap, root, next, last, built>>
         ELSE /\ heap' = Append([heap EXCEPT ![root[1]] = push(@, Len(heap) + 1)], new)
              /\ Observe(op, arg, "ok")
              /\ UNCHANGED <<root, next, last, built>>
    ELSE /\ heap' = Append(heap, new)
         /\ root' = Some(Len(heap) + 1)
         /\ next' = Some(Len(heap) + 1)
         /\ Observe(op, arg, "ok")
         /\ UNCHANGED <<last, built>>

attach_reroot(op, arg, new) ==
    IF root # None /\ next # None
    THEN /\ heap' = Append([heap EXCEPT ![next[1]] = push(@, Len(heap) + 1)], new)
         /\ Observe(op, arg, "ok")
         /\ UNCHANGED <<root, next, last, built>>
    ELSE /\ heap' = Append(heap, new)
         /\ root' = Some(Len(heap) + 1)
         /\ next' = Some(Len(heap) + 1)
         /\ Observe(op, arg, "ok")
         /\ UNCHANGED <<last, built>>

\* the match on self.root, the same in to, from, method_id and value
attach(op, arg, new) ==
    IF root # None
    THEN IF next = None
         THEN /\ Observe(op, arg, "unwrap_none")
              /\ UNCHANGED <<heap, root, next, last, built>>
         ELSE /\ heap' = Append([heap EXCEPT ![next[1]] = push(@, Len(heap) + 1)], new)
              /\ Observe(op, arg, "ok")
              /\ UNCHANGED <<root, next, last, built>>
    ELSE /\ heap' = Append(heap, new)
         /\ root' = Some(Len(heap) + 1)
         /\ next' = Some(Len(heap) + 1)
         /\ Observe(op, arg, "ok")
         /\ UNCHANGED <<last, built>>

to_late(s) ==
    \E r \in {parse_address(s)} :
        IF ~r.ok
        THEN /\ Len(heap) < MaxNodes
             /\ heap' = Append(heap, Condition("to", r.val))
             /\ Observe("to", s, "parse_error")
             /\ UNCHANGED <<root, next, last, built>>
        ELSE /\ Len(heap) < MaxNodes
             /\ attach("to", s, Condition("to", r.val))

\* r is the result of the parse; unwrap() on an error leaves the call at once,
\* before the node is made. A call that makes a node needs room in the heap.
to(s) ==
    \E r \in {parse_address(s)} :
        IF ~r.ok
        THEN /\ Observe("to", s, "parse_error")
             /\ UNCHANGED <<heap, root, next, last, built>>
        ELSE /\ Len(heap) < MaxNodes
             /\ attach("to", s, Condition("to", r.val))

from(s) ==
    \E r \in {parse_address(s)} :
        IF ~r.ok
        THEN /\ Observe("from", s, "parse_error")
             /\ UNCHANGED <<heap, root, next, last, built>>
        ELSE /\ Len(heap) < MaxNodes
             /\ attach("from", s, Condition("from", r.val))

method_id(s) ==
    \E r \in {parse_bytes(s)} :
        IF ~r.ok
        THEN /\ Observe("method_id", s, "parse_error")
             /\ UNCHANGED <<heap, root, next, last, built>>
        ELSE /\ Len(heap) < MaxNodes
             /\ attach("method_id", s, Condition("method", r.val))

value(v) ==
    /\ Len(heap) < MaxNodes
    /\ attach("value", <<v>>, Condition("value", from_u256(v)))

\* ---------------------------------------------------------- group calls
group_orphan(name, op) ==
    IF root # None /\ next # None
    THEN /\ heap' = Append([heap EXCEPT ![next[1]] = push(@, Len(heap) + 1)], Group(op))
         /\ last' = next
         /\ next' = Some(Len(heap) + 1)
         /\ Observe(name, <<>>, "ok")
         /\ UNCHANGED <<root, built>>
    ELSE /\ heap' = Append(heap, Group(op))
         /\ root' = IF root = None THEN Some(Len(heap) + 1) ELSE root
         /\ last' = next
         /\ next' = Some(Len(heap) + 1)
         /\ Observe(name, <<>>, "ok")
         /\ UNCHANGED built

\* the body shared by and (op = AND) and or (op = OR)
group(name, op) ==
    IF root # None
    THEN IF next = None
         THEN /\ Observe(name, <<>>, "unwrap_none")
              /\ UNCHANGED <<heap, root, next, last, built>>
         ELSE /\ heap' = Append([heap EXCEPT ![next[1]] = push(@, Len(heap) + 1)],
                                Group(op))
              /\ last' = next
              /\ next' = Some(Len(heap) + 1)
              /\ Observe(name, <<>>, "ok")
              /\ UNCHANGED <<root, built>>
    ELSE /\ heap' = Append(heap, Group(op))
         /\ root' = Some(Len(heap) + 1)
         /\ last' = next
         /\ next' = Some(Len(heap) + 1)
         /\ Observe(name, <<>>, "ok")
         /\ UNCHANGED built

and ==
    /\ Len(heap) < MaxNodes
    /\ group("and", AND)

or ==
    /\ Len(heap) < MaxNodes
    /\ group("or", OR)

exit_take ==
    /\ next' = last
    /\ last' = None
    /\ Observe("exit", <<>>, "ok")
    /\ UNCHANGED <<heap, root, built>>

exit ==
    /\ next' = last
    /\ Observe("exit", <<>>, "ok")
    /\ UNCHANGED <<heap, root, last, built>>

\* the Filter as a value: what &self is
Self == [root |-> root, next |-> next, last |-> last]

encode ==
    \E r \in {to_writer("compact", heap, Self)} :
        /\ ObserveRet("encode", <<>>, IF r.ok THEN "ok" ELSE "ser_error", Some(r))
        /\ UNCHANGED <<heap, root, next, last, built>>

encode_pretty ==
    \E r \in {to_writer("pretty", heap, Self)} :
        /\ ObserveRet("encode_pretty", <<>>, IF r.ok THEN "ok" ELSE "ser_error", Some(r))
        /\ UNCHANGED <<heap, root, next, last, built>>

build_reset ==
    /\ Len(built) < MaxBuilt
    /\ built' = Append(built, Self)
    /\ next' = root
    /\ last' = None
    /\ Observe("build", <<>>, "ok")
    /\ UNCHANGED <<heap, root>>

\* self.to_owned(): the derived Clone of Filter, which clones each
\* Option<Rc<..>>, that is the pointer and not the node. The caller keeps
\* the returned Filter in built.
build ==
    /\ Len(built) < MaxBuilt
    /\ built' = Append(built, Self)
    /\ Observe("build", <<>>, "ok")
    /\ UNCHANGED <<heap, root, next, last>>

\* ------------------------------------------------------------------ Next
Next ==
    \/ \E s \in ToInputs : to(s)
    \/ \E s \in FromInputs : from(s)
    \/ \E s \in MethodInputs : method_id(s)
    \/ \E v \in ValueInputs : value(v)
    \/ and
    \/ or
    \/ exit
    \/ build

Spec == Init /\ [][Next]_vars

\* construction from well-formed inputs, and serialization in every state
NextEncode ==
    \/ to(AddrA)
    \/ from(AddrB)
    \/ method_id(Selector)
    \/ \E v \in ValueInputs : value(v)
    \/ and
    \/ or
    \/ exit
    \/ build
    \/ encode
    \/ encode_pretty

SpecEncode == Init /\ [][NextEncode]_vars

\* value() on a fresh Filter, for every integer of the bounded range
NextValue == heap = <<>> /\ \E v \in 0..MaxValue : value(v)

SpecValue == Init /\ [][NextValue]_vars

\* ------------------------------------------------- reading the structure
Nodes == 1..Len(heap)

CondOps == {"to", "from", "method_id", "value"}

\* a node's children list, empty when nodes is None
children(n) == IF n.nodes = None THEN <<>> ELSE n.nodes[1]

\* the nodes whose children list holds id
Parents(id) == {p \in Nodes : \E i \in 1..Len(children(heap[p])) : children(heap[p])[i] = id}

IsPrefix(s, t) == Len(s) <= Len(t) /\ SubSeq(t, 1, Len(s)) = s

\* the tree below r in heap h, as a value: what a reader of the Filter sees
RECURSIVE TreeOf(_, _)
TreeOf(h, r) ==
    IF r = None THEN None
    ELSE LET n == h[r[1]]
         IN  Some([operand |-> n.operand,
                   operator |-> n.operator,
                   nodes |-> IF n.nodes = None THEN None
                             ELSE Some([i \in 1..Len(n.nodes[1]) |->
                                           TreeOf(h, Some(n.nodes[1][i]))[1]])])

\* big-endian value of a byte sequence
RECURSIVE BigEndian(_)
BigEndian(b) ==
    IF b = <<>> THEN 0 ELSE 256 * BigEndian(SubSeq(b, 1, Len(b) - 1)) + b[Len(b)]

\* ----------------------------------------------------------------- claims

\* C1: the tree of a Filter returned by build() is not changed by any later
\* call on the builder: root and every node below it stay as they were.
C1_BuiltTreeUnchanged ==
    [][\A i \in 1..Len(built) :
          TreeOf(heap', built[i].root) = TreeOf(heap, built[i].root)]_vars

\* C2: and(); exit(); <condition> completes without failure and attaches the
\* condition where the AND node was attached (same parent), not under the AND.
C2_AndExitCondIsSibling ==
    pat.stage = 3 =>
        /\ call.res = "ok"
        /\ Parents(Len(heap)) = Parents(pat.node)
        /\ pat.node \notin Parents(Len(heap))

\* C3: exit() with last absent leaves next unchanged.
C3_ExitWithoutSavedIsNoop ==
    [][(call'.op = "exit" /\ last = None) => next' = next]_vars

\* C4: fresh builder, two condition calls, build(): the root of the built tree
\* is an operator node whose children are exactly the two leaves, in call order.
C4_TwoConditionsImplicitGroup ==
    (/\ call.op = "build"
     /\ Len(heap) = 2
     /\ heap[1].operand # None
     /\ heap[2].operand # None)
    => LET t == TreeOf(heap, built[Len(built)].root)
           leaf(n) == [operand |-> n.operand, operator |-> None, nodes |-> None]
       IN  /\ t # None
           /\ t[1].operand = None
           /\ t[1].operator # None
           /\ t[1].nodes = Some(<<leaf(heap[1]), leaf(heap[2])>>)

\* C5: a condition node has no children and no operator.
C5_LeafHasNoChildren ==
    \A n \in Nodes :
        heap[n].operand # None => heap[n].nodes = None /\ heap[n].operator = None

\* C6: a call of to, from or method_id whose parse fails changes nothing of
\* the builder: heap, root, next, last and the built Filters are as before.
C6_ParseFailureLeavesBuilder ==
    [][call'.res = "parse_error" =>
          /\ call'.op \in {"to", "from", "method_id"}
          /\ heap' = heap /\ root' = root /\ next' = next /\ last' = last
          /\ built' = built]_vars

C6_Witness ==
    /\ call.op = "to" /\ call.res = "parse_error" /\ call.arg = AddrMalformed
    /\ root # None /\ last # None

\* C7: value(0) attaches a condition with key "value" and an empty value.
C7_ValueZeroIsEmpty ==
    (call.op = "value" /\ call.res = "ok" /\ call.arg = <<0>>) =>
        /\ heap[Len(heap)].operand # None
        /\ heap[Len(heap)].operand[1].key = "value"
        /\ heap[Len(heap)].operand[1].value = <<>>

\* C8: for v >= 1, value(v) attaches the minimal big-endian bytes of v: they
\* read back as v and the first byte is not zero.
C8_ValueMinimalBigEndian ==
    (call.op = "value" /\ call.res = "ok" /\ call.arg[1] >= 1) =>
        LET kv == heap[Len(heap)].operand[1]
        IN  /\ kv.key = "value"
            /\ Len(kv.value) >= 1
            /\ \A i \in 1..Len(kv.value) : kv.value[i] \in 0..255
            /\ kv.value[1] # 0
            /\ BigEndian(kv.value) = call.arg[1]

C8_Witness ==
    /\ call.op = "value" /\ call.res = "ok" /\ call.arg = <<256>>
    /\ heap[Len(heap)].operand[1].value = <<1, 0>>

\* C9: every node's children list before a call is a prefix of its list after
\* it, no node goes away, and every successful condition call makes a node of
\* its own (no de-duplication).
C9_ChildrenAppendOnly ==
    [][/\ Len(heap') >= Len(heap)
       /\ \A n \in Nodes : IsPrefix(children(heap[n]), children(heap'[n]))
       /\ (call'.op \in CondOps /\ call'.res = "ok") =>
              /\ Len(heap') = Len(heap) + 1
              /\ (root # None =>
                     children(heap'[next[1]]) = Append(children(heap[next[1]]), Len(heap'))) ]_vars

C9_Witness ==
    \E n \in Nodes :
        /\ Len(children(heap[n])) = 2
        /\ heap[children(heap[n])[1]].operand # None
        /\ heap[children(heap[n])[1]] = heap[children(heap[n])[2]]
        /\ call.op \in CondOps /\ call.res = "ok"

\* C10: every node is either a condition (operand set, operator null) or an
\* operator (operator AND or OR, operand null), never both and never neither.
C10_ExactlyOneVariant ==
    \A n \in Nodes :
        \/ heap[n].operand # None /\ heap[n].operator = None
        \/ heap[n].operand = None /\ heap[n].operator \in {Some(AND), Some(OR)}

C10_Witness ==
    /\ \E n \in Nodes : heap[n].operand # None /\ Len(children(heap[n])) > 0
    /\ \E n \in Nodes : heap[n].operator = Some(AND)
    /\ \E n \in Nodes : heap[n].operator = Some(OR)

\* C11: what encode() and encode_pretty() return depends on the tree below
\* root only: a Filter with an equal tree and any other next and last (here a
\* Filter that build() returned earlier) serializes to the same text.
C11_EncodeIgnoresCursor ==
    (call.op \in {"encode", "encode_pretty"} /\ out # None) =>
        \A i \in 1..Len(built) :
            TreeOf(heap, built[i].root) = TreeOf(heap, root) =>
                to_writer(IF call.op = "encode" THEN "compact" ELSE "pretty",
                          heap, built[i]) = out[1]

C11_Witness ==
    /\ call.op = "encode" /\ out # None /\ root # None
    /\ \E i \in 1..Len(built) :
          /\ built[i].root = root
          /\ built[i].next # next
          /\ built[i].last # last

\* C12: encode(), encode_pretty() and build() leave root, next, last and
\* every node as they were; encode() and encode_pretty() also leave the
\* Filters built so far.
C12_ReadersLeaveBuilder ==
    [][call'.op \in {"encode", "encode_pretty", "build"} =>
          /\ heap' = heap /\ root' = root /\ next' = next /\ last' = last
          /\ call'.op # "build" => built' = built
          /\ call'.op = "build" => built' = Append(built, Self)]_vars

C12_Witness ==
    /\ call.op = "build" /\ root # None /\ last # None /\ next # last
    /\ Len(heap) >= 2

\* C13: encode() and encode_pretty() return Ok for every tree the builder
\* calls can make.
C13_EncodeSucceeds ==
    call.op \in {"encode", "encode_pretty"} =>
        /\ call.res = "ok"
        /\ out # None
        /\ out[1].ok
        /\ Len(out[1].val) > 0

C13_Witness ==
    /\ call.op = "encode_pretty" /\ call.res = "ok"
    /\ \E n \in Nodes : heap[n].operand # None /\ heap[n].nodes # None
    /\ \E n \in Nodes : heap[n].operator # None /\ heap[n].nodes = None

\* C14: a successful condition or group call adds exactly one node: with no
\* root the new node becomes the root (and next), with a root it becomes the
\* last child of the node next points to; no other node changes.
C14_OneNodePerCall ==
    [][(call'.op \in CondOps \cup {"and", "or"} /\ call'.res = "ok") =>
          /\ Len(heap') = Len(heap) + 1
          /\ heap'[Len(heap')].nodes = None
          /\ root = None =>
                /\ root' = Some(Len(heap'))
                /\ next' = Some(Len(heap'))
                /\ SubSeq(heap', 1, Len(heap)) = heap
          /\ root # None =>
                /\ root' = root
                /\ next # None
                /\ heap'[next[1]] =
                       [heap[next[1]] EXCEPT
                           !.nodes = Some(Append(children(heap[next[1]]), Len(heap')))]
                /\ \A n \in Nodes \ {next[1]} : heap'[n] = heap[n]]_vars

C14_Witness ==
    /\ call.op \in CondOps /\ call.res = "ok"
    /\ root # None /\ next # None /\ next # root
    /\ Len(children(heap[next[1]])) = 1
    /\ children(heap[next[1]])[1] = Len(heap)

\* C15: and() and or(), in any state, set last to what next was and next to
\* the new group node; a condition call with a root present changes neither.
C15_GroupMovesCursor ==
    [][/\ call'.op \in {"and", "or"} =>
              /\ last' = next
              /\ Len(heap') = Len(heap) + 1
              /\ next' = Some(Len(heap'))
              /\ heap'[Len(heap')].operator # None
       /\ (call'.op \in CondOps /\ call'.res # "parse_error" /\ root # None) =>
              next' = next /\ last' = last]_vars

\* C16: after group; group; exit() next is the outer group, and after a
\* second exit() it still is (not the position held before the outer group
\* was opened); after any exit() next equals last, so one more exit()
\* changes nothing.
C16_SecondExitIsNoop ==
    /\ nest.stage \in {3, 4} => next = Some(nest.g1) /\ next # nest.before
    /\ call.op = "exit" => next = last

C16_Witness ==
    /\ nest.stage = 4
    /\ nest.before # None
    /\ Parents(nest.g2) = {nest.g1}

\* C17: no call with a well-formed input aborts: whenever root is present
\* next is present too, so next.as_ref().unwrap() never meets None.
C17_NextPresentWithRoot ==
    /\ root # None => next # None
    /\ call.res # "unwrap_none"

\* C18: the nodes form one tree below root: no node is below itself, the
\* root has no parent, every other node is in exactly one children list and
\* exactly once, and every node made is below root.
C18_ProperTree ==
    /\ root = None => heap = <<>>
    /\ root # None =>
          /\ Parents(root[1]) = {}
          /\ Reach(heap, root) = Nodes
    /\ \A n \in Nodes :
          /\ n \notin UNION {Reach(heap, Some(children(heap[n])[i])) :
                                i \in 1..Len(children(heap[n]))}
          /\ (root # Some(n)) =>
                /\ Cardinality(Parents(n)) = 1
                /\ \A p \in Parents(n) :
                      Cardinality({i \in 1..Len(children(heap[p])) :
                                      children(heap[p])[i] = n}) = 1

C18_Witness ==
    /\ Len(heap) = MaxNodes
    /\ \E n \in Nodes : Len(children(heap[n])) >= 2
    /\ call.op = "exit"

\* C19: once root is set it stays the same node, with the same operand and
\* operator.
C19_RootNeverReplaced ==
    [][root # None =>
          /\ root' = root
          /\ heap'[root[1]].operand = heap[root[1]].operand
          /\ heap'[root[1]].operator = heap[root[1]].operator]_vars

C19_Witness ==
    /\ root = Some(1)
    /\ Len(heap) = MaxNodes
    /\ call.op \in {"and", "or"} /\ call.res = "ok"
    /\ heap[1].operator # None

====
